---- MODULE Spec2Model ----
(***************************************************************************)
(* Model of crates/ibc/src/context/middlewares/shielded_recv.rs:           *)
(* the shielded-receive IBC middleware (ShieldedRecvModule), its memo      *)
(* codec (PacketMetadata) and its overflow-receive bridge                  *)
(* (mint_coins_execute / unescrow_coins_execute).                          *)
(*                                                                         *)
(* Text is the sequence of its characters, each character its Unicode      *)
(* code point.  A JSON document is the tagged value [t, v] it parses to,   *)
(* an object being its members in the order of the text (a key may be      *)
(* repeated); text that is not JSON has tag "text".                        *)
(***************************************************************************)
EXTENDS Integers, Sequences, FiniteSets, TLC

(* ------------------------------- state --------------------------------- *)

VARIABLES
    host,           \* the host context shared through the chain
    pre,            \* the host context when the last operation was called
    call,           \* the last operation and its arguments
    result,         \* what the last operation returned
    nextCalls,      \* the calls the last operation made on self.next
    ctxCalls        \* the calls it made on the TokenTransferContext

vars == <<host, pre, call, result, nextCalls, ctxCalls>>

(* ------------------------------ bounds --------------------------------- *)

\* longest overflow-receiver string fed to the codec round trip
MaxStrLen == 1
\* the amounts 0..MaxSmallAmount are all fed to the codec round trip
MaxSmallAmount == 12
\* largest balance / escrow the modelled host ledger holds
MaxBal == 1

(* ------------------------------- text ---------------------------------- *)

\* a, m, '"', '\' and newline
Chars == {97, 109, 34, 92, 10}

Strings == UNION {[1..n -> Chars] : n \in 0..MaxStrLen}

\* the characters of the Unicode blocks up to Combining Diacritical Marks
\* (U+0000..U+036F), on which the tables below are those of core::unicode
CodePoints == 0..879

\* char::is_grapheme_extended: below U+0370 the combining marks
\* U+0300..U+036F
IsGraphemeExtended(c) == c \in 768..879

\* core::unicode::printable::is_printable: below U+0370 every character
\* but the controls U+0000..U+001F and U+007F..U+009F, the no-break space
\* U+00A0 and the soft hyphen U+00AD
IsPrintable(c) == ~(c < 32 \/ c \in 127..160 \/ c = 173)

\* the lower-case hexadecimal digits of n, without leading zeros
RECURSIVE HexDigits(_)
HexDigits(n) ==
    LET d == n % 16
        ch == IF d < 10 THEN 48 + d ELSE 87 + d
    IN  IF n < 16 THEN <<ch>> ELSE HexDigits(n \div 16) \o <<ch>>

\* char::escape_unicode: \u{hex}
EscapeUnicode(c) == <<92, 117, 123>> \o HexDigits(c) \o <<125>>

\* char::escape_debug_ext as <str as Debug>::fmt calls it (double quotes
\* escaped, single quotes not, grapheme extenders escaped): NUL, tab,
\* carriage return and newline become \0, \t, \r and \n, '\' and '"' get a
\* backslash, a grapheme extender or a character that is not printable
\* becomes \u{hex}, and a printable character is kept
EscapeDebugChar(c) ==
    CASE c = 0 -> <<92, 48>>
      [] c = 9 -> <<92, 116>>
      [] c = 13 -> <<92, 114>>
      [] c = 10 -> <<92, 110>>
      [] c = 92 -> <<92, 92>>
      [] c = 34 -> <<92, 34>>
      [] c \in CodePoints \ {0, 9, 13, 10, 92, 34} ->
            IF IsGraphemeExtended(c) THEN EscapeUnicode(c)
            ELSE IF IsPrintable(c) THEN <<c>>
            ELSE EscapeUnicode(c)

\* <str as Debug>::fmt, the {:?} of line 120, between its double quotes
RECURSIVE EscapeDebug(_)
EscapeDebug(s) ==
    IF s = <<>> THEN <<>>
    ELSE EscapeDebugChar(Head(s)) \o EscapeDebug(Tail(s))

DebugFmt(s) == <<34>> \o EscapeDebug(s) \o <<34>>

(* ----------------------------- addresses ------------------------------- *)

Addresses == {"MASP", "alice", "bob"}

\* namada_core::address::MASP
MASP == "MASP"

\* Address::to_string (the encoding of an address as text): "ma", "am", "aa"
AddressToString(a) ==
    CASE a = "MASP" -> <<109, 97>>
      [] a = "alice" -> <<97, 109>>
      [] a = "bob" -> <<97, 97>>

\* Address::decode: Ok(address) for the text of an address, Err otherwise
AddressDecode(s) ==
    IF \E a \in Addresses : AddressToString(a) = s
    THEN [ok |-> TRUE, val |-> CHOOSE a \in Addresses : AddressToString(a) = s]
    ELSE [ok |-> FALSE, val |-> "DecodeError"]

(* ------------------------------- amounts ------------------------------- *)

\* Amount is a U256: an unsigned integer of 256 bits, held here as its
\* words of LimbBits bits, least significant first
AmountBits == 256
LimbBits == 16
LimbBase == 2 ^ LimbBits
NumLimbs == AmountBits \div LimbBits

\* U256::from(n) for a small n
AmountFromInt(n) ==
    [i \in 1..NumLimbs |->
        IF i = 1 THEN n % LimbBase
        ELSE IF i = 2 THEN (n \div LimbBase) % LimbBase
        ELSE 0]

\* U256::MAX
AmountMax == [i \in 1..NumLimbs |-> LimbBase - 1]

AmountIsZero(x) == \A i \in 1..NumLimbs : x[i] = 0

\* x * m + c on the words from the i-th up, with the carry out of the top
RECURSIVE MulAddFrom(_, _, _, _)
MulAddFrom(x, i, m, c) ==
    IF i > NumLimbs THEN [limbs |-> <<>>, carry |-> c]
    ELSE LET t == x[i] * m + c
             rest == MulAddFrom(x, i + 1, m, t \div LimbBase)
         IN  [limbs |-> <<t % LimbBase>> \o rest.limbs, carry |-> rest.carry]

\* U256::overflowing_mul_u64
OverflowingMul(x, m) == MulAddFrom(x, 1, m, 0)

\* U256::overflowing_add of a small number
OverflowingAdd(x, c) == MulAddFrom(x, 1, 1, c)

\* x divided by d on the words from the i-th down: quotient and remainder
RECURSIVE DivFrom(_, _, _, _)
DivFrom(x, i, d, rem) ==
    IF i = 0 THEN [limbs |-> <<>>, rem |-> rem]
    ELSE LET cur == rem * LimbBase + x[i]
             lower == DivFrom(x, i - 1, d, cur % d)
         IN  [limbs |-> lower.limbs \o <<cur \div d>>, rem |-> lower.rem]

\* amounts written and read back: every small one, and large ones up to
\* U256::MAX
Amounts ==
    {AmountFromInt(n) : n \in 0..MaxSmallAmount}
    \cup {AmountFromInt(99), AmountFromInt(100), AmountFromInt(LimbBase),
          AmountFromInt(2147483647), AmountMax}

\* the characters '0'..'9'
Digits == 48..57

DigitVal(c) == c - 48

DigitChar(d) == 48 + d

\* the decimal digits of a small n
RECURSIVE SmallDec(_)
SmallDec(n) ==
    IF n < 10 THEN <<DigitChar(n)>>
    ELSE SmallDec(n \div 10) \o <<DigitChar(n % 10)>>

\* the decimal digits of x > 0, four at a time from the least significant
RECURSIVE ToDecDigits(_)
ToDecDigits(x) ==
    LET qr == DivFrom(x, NumLimbs, 10000, 0)
    IN  IF AmountIsZero(qr.limbs) THEN SmallDec(qr.rem)
        ELSE ToDecDigits(qr.limbs)
             \o <<DigitChar(qr.rem \div 1000), DigitChar((qr.rem \div 100) % 10),
                  DigitChar((qr.rem \div 10) % 10), DigitChar(qr.rem % 10)>>

\* Amount's Serialize: the decimal text of the integer
ToDecStr(x) == IF AmountIsZero(x) THEN <<48>> ELSE ToDecDigits(x)

\* Amount's Deserialize (U256::from_dec_str): left to right, res * 10 + digit,
\* failing on a character that is not a digit and on overflow of either step
RECURSIVE FromDecStrAcc(_, _)
FromDecStrAcc(s, acc) ==
    IF s = <<>> THEN [ok |-> TRUE, val |-> acc]
    ELSE IF Head(s) \notin Digits THEN [ok |-> FALSE, val |-> "InvalidCharacter"]
    ELSE LET mul == OverflowingMul(acc, 10)
             add == OverflowingAdd(mul.limbs, DigitVal(Head(s)))
         IN  IF mul.carry > 0 THEN [ok |-> FALSE, val |-> "InvalidLength"]
             ELSE IF add.carry > 0 THEN [ok |-> FALSE, val |-> "InvalidLength"]
             ELSE FromDecStrAcc(Tail(s), add.limbs)

\* the same loop, taken sixteen characters at a time
RECURSIVE FromDecStrFrom(_, _)
FromDecStrFrom(s, acc) ==
    IF Len(s) <= 16 THEN FromDecStrAcc(s, acc)
    ELSE LET first == FromDecStrAcc(SubSeq(s, 1, 16), acc)
         IN  IF ~first.ok THEN first
             ELSE FromDecStrFrom(SubSeq(s, 17, Len(s)), first.val)

FromDecStr(s) == FromDecStrFrom(s, AmountFromInt(0))

(* -------------------------------- JSON --------------------------------- *)

JStr(s) == [t |-> "str", v |-> s]
JNum(n) == [t |-> "num", v |-> n]
\* an object: its members <<key, value>> in the order of the text
JObj(m) == [t |-> "obj", v |-> m]
JArr(a) == [t |-> "arr", v |-> a]
JNull == [t |-> "null", v |-> 0]
\* text that serde_json does not parse (the empty memo is one)
NotJson(s) == [t |-> "text", v |-> s]

\* the members of the object text o that carry the key k
Members(o, k) == {i \in DOMAIN o : o[i][1] = k}

\* the value of the one member of o that carries the key k
Member(o, k) == o[CHOOSE i \in Members(o, k) : TRUE][2]

\* serde_json::Value::Object over a serde_json::Map: one value for each key
VObj(m) == [t |-> "map", v |-> m]

\* serde_json's parse of a document into a Value: of the members of an
\* object that repeat a key the last one stays
RECURSIVE ToValue(_)
ToValue(j) ==
    IF j.t = "obj"
    THEN VObj([k \in {j.v[i][1] : i \in DOMAIN j.v} |->
                LET last == CHOOSE i \in Members(j.v, k) :
                                \A n \in Members(j.v, k) : n <= i
                IN  ToValue(j.v[last][2])])
    ELSE IF j.t = "arr" THEN JArr([i \in DOMAIN j.v |-> ToValue(j.v[i])])
    ELSE j

\* Map::contains_key
HasKey(m, k) == k \in DOMAIN m

Failed == [ok |-> FALSE, val |-> "Err"]
Ok(x) == [ok |-> TRUE, val |-> x]

(* ------------------------ PacketMetadata codec ------------------------- *)

\* Signer's Deserialize: a JSON string
DeserializeSigner(j) == IF j.t = "str" THEN Ok(j.v) ELSE Failed

\* Amount's Deserialize: a JSON string holding a decimal integer
DeserializeAmount(j) == IF j.t = "str" THEN FromDecStr(j.v) ELSE Failed

\* #[derive(Deserialize)] of ShieldedRecvMetadata: a JSON object with each
\* of the two fields once (a field missing or given twice is an error,
\* other keys are ignored), or a JSON array of exactly the two fields in
\* declaration order
DeserializeShieldedRecvMetadata(j) ==
    LET fields(r, a) ==
            IF DeserializeSigner(r).ok /\ DeserializeAmount(a).ok
            THEN Ok([overflow_receiver |-> DeserializeSigner(r).val,
                     target_amount |-> DeserializeAmount(a).val])
            ELSE Failed
    IN  IF j.t = "obj"
        THEN IF /\ Cardinality(Members(j.v, "overflow_receiver")) = 1
                /\ Cardinality(Members(j.v, "target_amount")) = 1
             THEN fields(Member(j.v, "overflow_receiver"),
                         Member(j.v, "target_amount"))
             ELSE Failed
        ELSE IF j.t = "arr"
        THEN IF Len(j.v) = 2 THEN fields(j.v[1], j.v[2]) ELSE Failed
        ELSE Failed

\* #[derive(Deserialize)] of PacketMetadata: a JSON object with the field
\* shielded_recv once, or a JSON array of the one field
DeserializePacketMetadata(j) ==
    LET inner(x) ==
            IF DeserializeShieldedRecvMetadata(x).ok
            THEN Ok([shielded_recv |-> DeserializeShieldedRecvMetadata(x).val])
            ELSE Failed
    IN  IF j.t = "obj"
        THEN IF Cardinality(Members(j.v, "shielded_recv")) = 1
             THEN inner(Member(j.v, "shielded_recv"))
             ELSE Failed
        ELSE IF j.t = "arr"
        THEN IF Len(j.v) = 1 THEN inner(j.v[1]) ELSE Failed
        ELSE Failed

\* serde_json::from_str::<PacketMetadata>(memo)
FromStrPacketMetadata(memo) ==
    IF memo.t = "text" THEN Failed ELSE DeserializePacketMetadata(memo)

\* variant: the amount is written as a JSON number
SerializeShieldedRecvMetadataNumber(m) ==
    JObj(<<<<"overflow_receiver", JStr(m.overflow_receiver)>>,
           <<"target_amount", JNum(m.target_amount)>>>>)

\* #[derive(Serialize)] of ShieldedRecvMetadata
SerializeShieldedRecvMetadata(m) ==
    JObj(<<<<"overflow_receiver", JStr(m.overflow_receiver)>>,
           <<"target_amount", JStr(ToDecStr(m.target_amount))>>>>)

\* #[derive(Serialize)] of PacketMetadata
SerializePacketMetadata(p) ==
    JObj(<<<<"shielded_recv", SerializeShieldedRecvMetadata(p.shielded_recv)>>>>)

\* PacketMetadata::new(receiver, amount)
PacketMetadataNew(receiver, amount) ==
    [shielded_recv |-> [overflow_receiver |-> AddressToString(receiver),
                        target_amount |-> amount]]

\* PacketMetadata::is_overflow_receive_msg(msg)
is_overflow_receive_msg(msg) == HasKey(msg, "shielded_recv")

\* variant: the whole memo is cleared
strip_middleware_msg_clear(json_obj_memo) ==
    [k \in {} |-> json_obj_memo[k]]

\* PacketMetadata::strip_middleware_msg(json_obj_memo)
strip_middleware_msg(json_obj_memo) ==
    [k \in DOMAIN json_obj_memo \ {"shielded_recv"} |-> json_obj_memo[k]]

\* PacketMetadata::overflow_receiver(&self)
overflow_receiver(p) == p.shielded_recv.overflow_receiver

\* PacketMetadata::target_amount(&self)
target_amount(p) == p.shielded_recv.target_amount

(* --------------------------- host and chain ---------------------------- *)

\* the state behind the chain: the host context C reached through
\* self.next.next().transfer_module.ctx (balances and the escrow account)
HostStates == [bal : [Addresses -> 0..MaxBal], escrow : 0..MaxBal]

Some(x) == [some |-> TRUE, val |-> x]
None == [some |-> FALSE, val |-> "None"]

\* ModuleExtras::empty()
ModuleExtrasEmpty == [events |-> <<>>, log |-> <<>>]

\* AcknowledgementStatus::success / AcknowledgementStatus::error
AckSuccess(msg) == [status |-> "success", msg |-> msg]
AckError(msg) == [status |-> "error", msg |-> msg]

\* AckStatusValue::new: Err on the empty message
AckStatusValueNew(msg) == IF msg = <<>> THEN Failed ELSE Ok(msg)

\* serde_json::from_slice::<PacketData>(&packet.data)
FromSlicePacketData(data) ==
    IF data.ics20
    THEN Ok([receiver |-> data.receiver, memo |-> data.memo])
    ELSE Failed

\* self.next.on_recv_packet_execute(packet, relayer): the packet-forward
\* middleware over the transfer module, which credits the receiver and
\* acknowledges with "AQ==", or refuses with "next: packet refused"
NextOnRecvPacketExecute(packet, relayer, h) ==
    LET d == FromSlicePacketData(packet.data)
        a == AddressDecode(packet.data.receiver)
    IN  IF d.ok /\ a.ok /\ h.bal[a.val] < MaxBal
        THEN [extras |-> [events |-> <<"recv", relayer>>, log |-> <<>>],
              ack |-> Some(AckSuccess(<<65, 81, 61, 61>>)),
              host |-> [h EXCEPT !.bal[a.val] = @ + 1]]
        ELSE [extras |-> ModuleExtrasEmpty,
              ack |-> Some(AckError(<<110, 101, 120, 116, 58, 32, 112, 97, 99,
                                      107, 101, 116, 32, 114, 101, 102, 117,
                                      115, 101, 100>>)),
              host |-> h]

\* the other hooks of the Module trait, as next implements them
Hooks ==
    {"on_chan_open_init_validate", "on_chan_open_init_execute",
     "on_chan_open_try_validate", "on_chan_open_try_execute",
     "on_chan_open_ack_validate", "on_chan_open_ack_execute",
     "on_chan_open_confirm_validate", "on_chan_open_confirm_execute",
     "on_chan_close_init_validate", "on_chan_close_init_execute",
     "on_chan_close_confirm_validate", "on_chan_close_confirm_execute",
     "on_acknowledgement_packet_validate", "on_acknowledgement_packet_execute",
     "on_timeout_packet_validate", "on_timeout_packet_execute"}

Channels == {"channel-0", "channel-1"}
Ports == {"transfer", "icahost"}

\* self.next.<hook>(args): a timeout refunds the escrow to the sender
NextHook(hook, arg, h) ==
    IF hook = "on_timeout_packet_execute" /\ arg = "channel-0"
       /\ h.escrow > 0 /\ h.bal["alice"] < MaxBal
    THEN [result |-> Ok(<<hook, arg, "refunded">>),
          host |-> [h EXCEPT !.escrow = @ - 1, !.bal["alice"] = @ + 1]]
    ELSE [result |-> [ok |-> arg = "channel-0", val |-> <<hook, arg>>],
          host |-> h]

\* TokenTransferContext::mint_coins_execute(&receiver, coin)
CtxMintCoinsExecute(receiver, coin, h) ==
    IF coin.denom = "nam" /\ h.bal[receiver] + coin.amount <= MaxBal
    THEN [result |-> Ok("unit"),
          host |-> [h EXCEPT !.bal[receiver] = @ + coin.amount]]
    ELSE [result |-> [ok |-> FALSE, val |-> "TokenTransferError"], host |-> h]

\* TokenTransferContext::unescrow_coins_execute(&receiver, port, channel, coin)
CtxUnescrowCoinsExecute(receiver, port, channel, coin, h) ==
    IF /\ port = "transfer" /\ channel = "channel-0" /\ coin.denom = "nam"
       /\ h.escrow >= coin.amount /\ h.bal[receiver] + coin.amount <= MaxBal
    THEN [result |-> Ok("unit"),
          host |-> [h EXCEPT !.escrow = @ - coin.amount,
                             !.bal[receiver] = @ + coin.amount]]
    ELSE [result |-> [ok |-> FALSE, val |-> "TokenTransferError"], host |-> h]

(* ------------------------------- inputs -------------------------------- *)

\* receiver fields of inbound packets and of bridge calls: empty, the
\* MASP, another address, and text that is no address: '\' '"', then
\* newline tab carriage-return form-feed, then NUL no-break-space DEL
\* U+0001, then escape e-acute combining-acute-accent soft-hyphen
Receivers ==
    {<<>>, AddressToString(MASP), AddressToString("alice"), <<92, 34>>,
     <<10, 9, 13, 12>>, <<0, 160, 127, 1>>, <<27, 233, 769, 173>>}

Relayers == {"relayer-a", "relayer-b"}

\* the object {"overflow_receiver": r, "target_amount": a}
InnerObject(r, a) == JObj(<<<<"overflow_receiver", r>>, <<"target_amount", a>>>>)

\* the object {"shielded_recv": i}
MemoObject(i) == JObj(<<<<"shielded_recv", i>>>>)

\* values found under the key shielded_recv: amounts "7", "100", U256::MAX,
\* "3", "0" beside an unknown key given twice, and the array form
WellFormedInner ==
    {InnerObject(JStr(AddressToString("alice")), JStr(<<55>>)),
     InnerObject(JStr(AddressToString("alice")), JStr(<<49, 48, 48>>)),
     InnerObject(JStr(AddressToString("alice")), JStr(ToDecStr(AmountMax))),
     InnerObject(JStr(<<>>), JStr(<<51>>)),
     JObj(<<<<"extra", JNull>>, <<"overflow_receiver", JStr(<<97>>)>>,
            <<"extra", JNum(1)>>, <<"target_amount", JStr(<<48>>)>>>>),
     JArr(<<JStr(AddressToString("bob")), JStr(<<49, 48>>)>>)}

\* the decimal text of 2^256, one more than U256::MAX
TwoPow256Dec ==
    LET m == ToDecStr(AmountMax)
    IN  [m EXCEPT ![Len(m)] = DigitChar(DigitVal(m[Len(m)]) + 1)]

\* a field missing, of the wrong type, out of range ("-1" is the last of
\* them) or given twice
MalformedInner ==
    {JObj(<<<<"overflow_receiver", JStr(AddressToString("alice"))>>>>),
     JObj(<<<<"target_amount", JStr(<<55>>)>>>>),
     InnerObject(JStr(AddressToString("alice")), JNum(7)),
     InnerObject(JNum(1), JStr(<<55>>)),
     InnerObject(JStr(AddressToString("alice")), JStr(TwoPow256Dec)),
     InnerObject(JStr(AddressToString("alice")),
                 JStr(ToDecStr(AmountMax) \o <<48>>)),
     InnerObject(JStr(AddressToString("alice")), JStr(<<45, 49>>)),
     JObj(<<<<"overflow_receiver", JStr(AddressToString("alice"))>>,
            <<"overflow_receiver", JStr(AddressToString("alice"))>>,
            <<"target_amount", JStr(<<55>>)>>>>),
     JObj(<<<<"overflow_receiver", JStr(AddressToString("alice"))>>,
            <<"target_amount", JStr(<<55>>)>>,
            <<"target_amount", JStr(<<51>>)>>>>),
     JArr(<<JStr(AddressToString("alice"))>>),
     JNull}

\* memo fields of inbound transfer packets
Memos ==
    {NotJson(<<>>), JStr(<<97>>), JObj(<<>>),
     JObj(<<<<"forward", JStr(<<97>>)>>>>), JArr(<<>>)}
    \cup {MemoObject(i) : i \in WellFormedInner \cup MalformedInner}
    \cup {JObj(<<<<"shielded_recv", i>>, <<"forward", JStr(<<97>>)>>>>) :
            i \in {JNull, InnerObject(JStr(<<>>), JStr(<<51>>))}}
    \cup {JObj(<<<<"shielded_recv", InnerObject(JStr(<<>>), JStr(<<51>>))>>,
                 <<"shielded_recv", InnerObject(JStr(<<>>), JStr(<<51>>))>>>>),
          JObj(<<<<"shielded_recv", JNull>>,
                 <<"shielded_recv", InnerObject(JStr(<<>>), JStr(<<51>>))>>>>)}
    \cup {JArr(<<InnerObject(JStr(<<>>), JStr(<<51>>))>>)}

\* packet.data: bytes that are an ICS-20 transfer, and bytes that are not
\* although they carry a receiver and a memo
Payloads ==
    {[ics20 |-> TRUE, receiver |-> r, memo |-> m] : r \in Receivers, m \in Memos}
    \cup {[ics20 |-> FALSE, receiver |-> r,
            memo |-> MemoObject(InnerObject(JStr(<<>>), JStr(<<51>>)))] :
            r \in Receivers}

Packets == {[data |-> d] : d \in Payloads}

Coins == [denom : {"nam", "uatom"}, amount : 1..(MaxBal + 1)]

\* memo objects handed to is_overflow_receive_msg / strip_middleware_msg
MemoObjects == {ToValue(m).v : m \in {x \in Memos : x.t = "obj"}}

\* the input memos that serde_json::from_str::<PacketMetadata> accepts
DecodableMemos == {m \in Memos : FromStrPacketMetadata(m).ok}

(* --------------------------- ShieldedRecvModule ------------------------ *)

\* "Shielded receive error: Address "
MismatchPrefix ==
    <<83, 104, 105, 101, 108, 100, 101, 100, 32, 114, 101, 99, 101, 105, 118,
      101, 32, 101, 114, 114, 111, 114, 58, 32, 65, 100, 100, 114, 101, 115,
      115, 32>>

\* " is not the MASP"
MismatchSuffix ==
    <<32, 105, 115, 32, 110, 111, 116, 32, 116, 104, 101, 32, 77, 65, 83, 80>>

\* variant: the message is the receiver alone
MismatchMessageBare(receiver) == receiver

\* the format! of lines 119-122
MismatchMessage(receiver) ==
    MismatchPrefix \o DebugFmt(receiver) \o MismatchSuffix

\* variant: the receiver is checked as an address, not as text
ReceiverMismatchUndecodable(data) == ~AddressDecode(data.receiver).ok

\* variant: every shielded-receive packet is refused
ReceiverMismatchAlways(data) == TRUE

\* variant: the check is skipped once a packet has been let through
ReceiverMismatchUntilDelegated(data) ==
    data.receiver # AddressToString(MASP) /\ host.bal[MASP] = 0

\* serde_json::from_str::<PacketMetadata>(data.memo.as_ref()).is_err(),
\* read off DecodableMemos for the input memos
MemoIsErr(memo) ==
    IF memo \in Memos THEN memo \notin DecodableMemos
    ELSE ~FromStrPacketMetadata(memo).ok

\* the branch of lines 117-126 is taken
ReceiverMismatch(data) == data.receiver # AddressToString(MASP)

\* return self.next.on_recv_packet_execute(packet, relayer)
DelegateRecv(packet, relayer, h) ==
    LET r == NextOnRecvPacketExecute(packet, relayer, h)
    IN  [panic |-> FALSE,
         ret |-> [extras |-> r.extras, ack |-> r.ack],
         host |-> r.host,
         nextCalls |-> <<[hook |-> "on_recv_packet_execute",
                          packet |-> packet, relayer |-> relayer]>>]

\* variant: the directive gate looks for the key shielded_recv only
middleware_on_recv_packet_execute_key_gate(packet, relayer, h) ==
    LET data == FromSlicePacketData(packet.data)
    IN  IF ~data.ok THEN DelegateRecv(packet, relayer, h)
        ELSE IF ~(/\ data.val.memo.t = "obj"
                  /\ Members(data.val.memo.v, "shielded_recv") # {})
        THEN DelegateRecv(packet, relayer, h)
        ELSE IF ReceiverMismatch(data.val)
        THEN [panic |-> FALSE,
              ret |-> [extras |-> ModuleExtrasEmpty,
                       ack |-> Some(AckError(MismatchMessage(data.val.receiver)))],
              host |-> h, nextCalls |-> <<>>]
        ELSE DelegateRecv(packet, relayer, h)

\* ShieldedRecvModule::middleware_on_recv_packet_execute
middleware_on_recv_packet_execute(packet, relayer, h) ==
    LET data == FromSlicePacketData(packet.data)
    IN  IF ~data.ok THEN DelegateRecv(packet, relayer, h)
        ELSE IF MemoIsErr(data.val.memo)
        THEN DelegateRecv(packet, relayer, h)
        ELSE IF ReceiverMismatch(data.val)
        THEN LET v == AckStatusValueNew(MismatchMessage(data.val.receiver))
             IN  IF ~v.ok
                 THEN [panic |-> TRUE, ret |-> "Ack is not empty",
                       host |-> h, nextCalls |-> <<>>]
                 ELSE [panic |-> FALSE,
                       ret |-> [extras |-> ModuleExtrasEmpty,
                                ack |-> Some(AckError(v.val))],
                       host |-> h, nextCalls |-> <<>>]
        ELSE DelegateRecv(packet, relayer, h)

\* variant: packet acknowledgements are answered here, not by next
middleware_hook_intercept(hook, arg, h) ==
    IF hook = "on_acknowledgement_packet_execute"
    THEN [ret |-> Ok(<<hook, arg>>), host |-> h, nextCalls |-> <<>>]
    ELSE [ret |-> NextHook(hook, arg, h).result, host |-> NextHook(hook, arg, h).host,
          nextCalls |-> <<[hook |-> hook, arg |-> arg]>>]

\* the provided methods of MiddlewareModule that the impl of lines 87-100
\* does not override: self.next_middleware().<hook>(args)
middleware_hook(hook, arg, h) ==
    LET r == NextHook(hook, arg, h)
    IN  [ret |-> r.result, host |-> r.host,
         nextCalls |-> <<[hook |-> hook, arg |-> arg]>>]

\* variant: an undecodable receiver falls back to the MASP
mint_coins_execute_fallback(receiver, coin, h) ==
    LET decoded == AddressDecode(receiver)
        to == IF decoded.ok THEN decoded.val ELSE MASP
        r == CtxMintCoinsExecute(to, coin, h)
    IN  [ret |-> IF r.result.ok THEN Ok("unit")
                 ELSE [ok |-> FALSE, val |-> <<"TokenTransfer", r.result.val>>],
         host |-> r.host,
         ctxCalls |-> <<[op |-> "mint_coins_execute", receiver |-> to,
                         coin |-> coin]>>]

\* ShieldedRecvModule::mint_coins_execute
mint_coins_execute(receiver, coin, h) ==
    LET decoded == AddressDecode(receiver)
    IN  IF ~decoded.ok
        THEN [ret |-> [ok |-> FALSE, val |-> <<"Other", decoded.val>>],
              host |-> h, ctxCalls |-> <<>>]
        ELSE LET r == CtxMintCoinsExecute(decoded.val, coin, h)
             IN  [ret |-> IF r.result.ok THEN Ok("unit")
                          ELSE [ok |-> FALSE,
                                val |-> <<"TokenTransfer", r.result.val>>],
                  host |-> r.host,
                  ctxCalls |-> <<[op |-> "mint_coins_execute",
                                  receiver |-> decoded.val, coin |-> coin]>>]

\* variant: the unescrow always names the transfer port
unescrow_coins_execute_fixed_port(receiver, port, channel, coin, h) ==
    LET decoded == AddressDecode(receiver)
    IN  IF ~decoded.ok
        THEN [ret |-> [ok |-> FALSE, val |-> <<"Other", decoded.val>>],
              host |-> h, ctxCalls |-> <<>>]
        ELSE LET r == CtxUnescrowCoinsExecute(decoded.val, "transfer", channel, coin, h)
             IN  [ret |-> IF r.result.ok THEN Ok("unit")
                          ELSE [ok |-> FALSE,
                                val |-> <<"TokenTransfer", r.result.val>>],
                  host |-> r.host,
                  ctxCalls |-> <<[op |-> "unescrow_coins_execute",
                                  receiver |-> decoded.val, port |-> "transfer",
                                  channel |-> channel, coin |-> coin]>>]

\* ShieldedRecvModule::unescrow_coins_execute
unescrow_coins_execute(receiver, port, channel, coin, h) ==
    LET decoded == AddressDecode(receiver)
    IN  IF ~decoded.ok
        THEN [ret |-> [ok |-> FALSE, val |-> <<"Other", decoded.val>>],
              host |-> h, ctxCalls |-> <<>>]
        ELSE LET r == CtxUnescrowCoinsExecute(decoded.val, port, channel, coin, h)
             IN  [ret |-> IF r.result.ok THEN Ok("unit")
                          ELSE [ok |-> FALSE,
                                val |-> <<"TokenTransfer", r.result.val>>],
                  host |-> r.host,
                  ctxCalls |-> <<[op |-> "unescrow_coins_execute",
                                  receiver |-> decoded.val, port |-> port,
                                  channel |-> channel, coin |-> coin]>>]

(* ---------------------------- state machine ---------------------------- *)

Init ==
    /\ host \in {h \in HostStates : \A a \in Addresses : h.bal[a] = 0}
    /\ pre = host
    /\ call = [op |-> "new"]
    /\ result = [panic |-> FALSE, ret |-> "none"]
    /\ nextCalls = <<>>
    /\ ctxCalls = <<>>

\* Module::on_recv_packet_execute, which from_middleware! routes to
\* middleware_on_recv_packet_execute
RecvPacket(packet, relayer) ==
    LET r == middleware_on_recv_packet_execute(packet, relayer, host)
    IN  /\ pre' = host
        /\ call' = [op |-> "recv", packet |-> packet, relayer |-> relayer]
        /\ result' = [panic |-> r.panic, ret |-> r.ret]
        /\ host' = r.host
        /\ nextCalls' = r.nextCalls
        /\ ctxCalls' = <<>>

\* any other hook of the Module trait
OtherHook(hook, arg) ==
    LET r == middleware_hook(hook, arg, host)
    IN  /\ pre' = host
        /\ call' = [op |-> "hook", hook |-> hook, arg |-> arg]
        /\ result' = [panic |-> FALSE, ret |-> r.ret]
        /\ host' = r.host
        /\ nextCalls' = r.nextCalls
        /\ ctxCalls' = <<>>

\* OverflowRecvContext::mint_coins_execute
MintCoins(receiver, coin) ==
    LET r == mint_coins_execute(receiver, coin, host)
    IN  /\ pre' = host
        /\ call' = [op |-> "mint", receiver |-> receiver, coin |-> coin]
        /\ result' = [panic |-> FALSE, ret |-> r.ret]
        /\ host' = r.host
        /\ nextCalls' = <<>>
        /\ ctxCalls' = r.ctxCalls

\* OverflowRecvContext::unescrow_coins_execute
UnescrowCoins(receiver, port, channel, coin) ==
    LET r == unescrow_coins_execute(receiver, port, channel, coin, host)
    IN  /\ pre' = host
        /\ call' = [op |-> "unescrow", receiver |-> receiver, port |-> port,
                    channel |-> channel, coin |-> coin]
        /\ result' = [panic |-> FALSE, ret |-> r.ret]
        /\ host' = r.host
        /\ nextCalls' = <<>>
        /\ ctxCalls' = r.ctxCalls

\* is_overflow_receive_msg and strip_middleware_msg on the memo object drawn
StripMemo ==
    /\ call.op = "strip_arg"
    /\ pre' = host
    /\ call' = [op |-> "strip", msg |-> call.msg]
    /\ result' = [panic |-> FALSE,
                  ret |-> [is_msg |-> is_overflow_receive_msg(call.msg),
                           stripped |-> strip_middleware_msg(call.msg)]]
    /\ nextCalls' = <<>>
    /\ ctxCalls' = <<>>
    /\ UNCHANGED host

\* the PacketMetadata drawn, written as a memo and read back
EncodeDecode ==
    LET memo == SerializePacketMetadata(call.meta)
    IN  /\ call.op = "codec_arg"
        /\ pre' = host
        /\ call' = [op |-> "codec", meta |-> call.meta]
        /\ result' = [panic |-> FALSE,
                      ret |-> [memo |-> memo,
                               decoded |-> FromStrPacketMetadata(memo)]]
        /\ nextCalls' = <<>>
        /\ ctxCalls' = <<>>
        /\ UNCHANGED host

\* the chain as the IBC router drives it
Next ==
    \/ \E packet \in Packets, relayer \in Relayers : RecvPacket(packet, relayer)
    \/ \E hook \in Hooks, arg \in Channels : OtherHook(hook, arg)

Spec == Init /\ [][Next]_vars

\* the module as the overflow-receive middleware drives it
NextBridge ==
    \/ \E receiver \in Receivers, coin \in Coins : MintCoins(receiver, coin)
    \/ \E receiver \in Receivers, port \in Ports, channel \in Channels,
          coin \in Coins : UnescrowCoins(receiver, port, channel, coin)

SpecBridge == Init /\ [][NextBridge]_vars

\* the memo codec on its own: an argument is drawn, then the codec is
\* applied to it
InitCodec ==
    /\ host = [bal |-> [a \in Addresses |-> 0], escrow |-> 0]
    /\ pre = host
    /\ call \in {[op |-> "strip_arg", msg |-> m] : m \in MemoObjects}
            \cup {[op |-> "codec_arg",
                   meta |-> [shielded_recv |-> [overflow_receiver |-> r,
                                                target_amount |-> a]]] :
                    r \in Strings, a \in Amounts}
    /\ result = [panic |-> FALSE, ret |-> "none"]
    /\ nextCalls = <<>>
    /\ ctxCalls = <<>>

NextCodec ==
    \/ StripMemo
    \/ EncodeDecode

SpecCodec == InitCodec /\ [][NextCodec]_vars

(* ------------------------------ properties ----------------------------- *)

\* the last operation was middleware_on_recv_packet_execute on a packet
\* that decodes as transfer data carrying a PacketMetadata memo
ShieldedRecvCall ==
    /\ call.op = "recv"
    /\ call.packet.data.ics20
    /\ ~MemoIsErr(call.packet.data.memo)

\* the one call of next.on_recv_packet_execute with the arguments given
SameRecvCall ==
    nextCalls = <<[hook |-> "on_recv_packet_execute", packet |-> call.packet,
                   relayer |-> call.relayer]>>

\* the operation returned, and changed the host, as next does on its own
AsNextOnRecv ==
    LET n == NextOnRecvPacketExecute(call.packet, call.relayer, pre)
    IN  /\ ~result.panic
        /\ result.ret = [extras |-> n.extras, ack |-> n.ack]
        /\ host = n.host

\* C1: a shielded-receive packet whose receiver text is not the MASP's is
\* answered with (ModuleExtras::empty(), Some(error acknowledgement)) and
\* next.on_recv_packet_execute is not called for it.
C1_MismatchRejected ==
    (ShieldedRecvCall /\ call.packet.data.receiver # <<109, 97>>)
        => /\ ~result.panic
           /\ result.ret.extras = ModuleExtrasEmpty
           /\ result.ret.ack.some
           /\ result.ret.ack.val.status = "error"
           /\ nextCalls = <<>>
           /\ host = pre

C1_Witness ==
    /\ ShieldedRecvCall
    /\ call.packet.data.receiver = AddressToString("alice")
    /\ nextCalls = <<>>
    /\ result.ret.ack.val.status = "error"

\* C2: a packet whose payload is not transfer data, or whose memo is not a
\* PacketMetadata (a shielded_recv key with malformed or missing fields
\* included), gets exactly what next.on_recv_packet_execute gives for the
\* same packet and relayer, whatever its receiver.
C2_NotApplicablePassesThrough ==
    (call.op = "recv" /\ ~ShieldedRecvCall) => (AsNextOnRecv /\ SameRecvCall)

C2_Witness ==
    /\ call.op = "recv"
    /\ call.packet.data.ics20
    /\ call.packet.data.memo.t = "obj"
    /\ Cardinality(Members(call.packet.data.memo.v, "shielded_recv")) = 2
    /\ MemoIsErr(call.packet.data.memo)
    /\ call.packet.data.receiver = AddressToString("alice")
    /\ Len(nextCalls) = 1
    /\ result.ret.ack.val.status = "success"

\* C3: a shielded-receive packet whose receiver text is the MASP's gets
\* exactly what next.on_recv_packet_execute(packet, relayer) returns, and
\* the middleware does nothing else.
C3_MaspPassesThrough ==
    (ShieldedRecvCall /\ call.packet.data.receiver = <<109, 97>>)
        => (AsNextOnRecv /\ SameRecvCall /\ ctxCalls = <<>>)

C3_Witness ==
    /\ ShieldedRecvCall
    /\ call.packet.data.receiver = AddressToString(MASP)
    /\ Len(nextCalls) = 1
    /\ host.bal[MASP] = pre.bal[MASP] + 1

\* C4: mint_coins_execute and unescrow_coins_execute on a receiver that
\* does not decode as an address return Error::Other, make no call on the
\* token-transfer context and leave the host state as it was.
C4_DecodeErrorNoCall ==
    (call.op \in {"mint", "unescrow"} /\ ~AddressDecode(call.receiver).ok)
        => /\ ~result.ret.ok
           /\ result.ret.val[1] = "Other"
           /\ ctxCalls = <<>>
           /\ host = pre

C4_Witness ==
    /\ call.op = "mint"
    /\ call.receiver = <<>>
    /\ call.coin = [denom |-> "nam", amount |-> 1]
    /\ ~result.ret.ok
    /\ pre.bal[MASP] = 0

\* C5: on a receiver that decodes, mint_coins_execute and
\* unescrow_coins_execute call the context's operation once, with the
\* decoded address and the coin (and port and channel) as given, and
\* return its outcome: success as success, failure as Error::TokenTransfer.
C5_BridgeDelegates ==
    (call.op \in {"mint", "unescrow"} /\ AddressDecode(call.receiver).ok)
        => LET a == AddressDecode(call.receiver).val
               c == IF call.op = "mint"
                    THEN CtxMintCoinsExecute(a, call.coin, pre)
                    ELSE CtxUnescrowCoinsExecute(a, call.port, call.channel,
                                                 call.coin, pre)
           IN  /\ Len(ctxCalls) = 1
               /\ ctxCalls[1].receiver = a
               /\ AddressToString(ctxCalls[1].receiver) = call.receiver
               /\ ctxCalls[1].coin = call.coin
               /\ IF call.op = "mint"
                  THEN ctxCalls[1].op = "mint_coins_execute"
                  ELSE /\ ctxCalls[1].op = "unescrow_coins_execute"
                       /\ ctxCalls[1].port = call.port
                       /\ ctxCalls[1].channel = call.channel
               /\ host = c.host
               /\ result.ret.ok = c.result.ok
               /\ ~c.result.ok
                    => result.ret.val = <<"TokenTransfer", c.result.val>>

C5_Witness ==
    /\ call.op = "unescrow"
    /\ call.port = "transfer"
    /\ result.ret.ok
    /\ host.escrow = pre.escrow - 1
    /\ host.bal["alice"] = pre.bal["alice"] + 1

\* C6: every hook but packet-receive execution is forwarded to next as it
\* was given and next's result is returned as it is, in every state the
\* chain can be in.
C6_OtherHooksDelegate ==
    call.op = "hook"
        => LET n == NextHook(call.hook, call.arg, pre)
           IN  /\ result.ret = n.result
               /\ host = n.host
               /\ nextCalls = <<[hook |-> call.hook, arg |-> call.arg]>>

C6_Witness ==
    /\ call.op = "hook"
    /\ call.hook = "on_timeout_packet_execute"
    /\ pre.bal[MASP] > 0
    /\ host.escrow = pre.escrow - 1
    /\ Len(nextCalls) = 1

\* C7: is_overflow_receive_msg is true exactly of the objects with the key
\* shielded_recv; strip_middleware_msg removes that key and keeps every
\* other key with its value; without the key the object comes back as it
\* was; a stripped object is no overflow-receive message and stripping it
\* again changes nothing.
C7_StripExactlyTheKey ==
    call.op = "strip"
        => LET m == call.msg
               s == result.ret.stripped
           IN  /\ result.ret.is_msg <=> ("shielded_recv" \in DOMAIN m)
               /\ DOMAIN s = DOMAIN m \ {"shielded_recv"}
               /\ \A k \in DOMAIN s : s[k] = m[k]
               /\ ("shielded_recv" \notin DOMAIN m)
                    => (DOMAIN s = DOMAIN m /\ \A k \in DOMAIN m : s[k] = m[k])
               /\ ~is_overflow_receive_msg(s)
               /\ DOMAIN strip_middleware_msg(s) = DOMAIN s
               /\ \A k \in DOMAIN s : strip_middleware_msg(s)[k] = s[k]

C7_Witness ==
    /\ call.op = "strip"
    /\ result.ret.is_msg
    /\ "forward" \in DOMAIN call.msg
    /\ DOMAIN result.ret.stripped = {"forward"}

\* C8: a PacketMetadata of any receiver text and any amount, written as a
\* memo and read back, has the same overflow_receiver and target_amount,
\* and the memo passes the middleware's directive gate: a packet carrying
\* it to a receiver that is not the MASP is refused.
C8_MemoRoundTrip ==
    call.op = "codec"
        => /\ result.ret.decoded.ok
           /\ overflow_receiver(result.ret.decoded.val)
                = call.meta.shielded_recv.overflow_receiver
           /\ target_amount(result.ret.decoded.val)
                = call.meta.shielded_recv.target_amount
           /\ middleware_on_recv_packet_execute(
                  [data |-> [ics20 |-> TRUE, receiver |-> <<>>,
                             memo |-> result.ret.memo]],
                  "relayer-a", host).nextCalls = <<>>

C8_Witness ==
    /\ call.op = "codec"
    /\ call.meta.shielded_recv.target_amount = AmountMax
    /\ Len(Member(Member(result.ret.memo.v, "shielded_recv").v,
                   "target_amount").v) > 70
    /\ call.meta.shielded_recv.overflow_receiver = <<34>>
    /\ result.ret.decoded.ok

\* the number that the hexadecimal digits s write
RECURSIVE HexValue(_)
HexValue(s) ==
    IF s = <<>> THEN 0
    ELSE LET h == s[Len(s)]
         IN  HexValue(SubSeq(s, 1, Len(s) - 1)) * 16
                + (IF h \in 48..57 THEN h - 48 ELSE h - 87)

\* the text a Debug rendering stands for: the quotes dropped, the escapes
\* \u{hex}, \0, \t, \r, \n, \\ and \" undone
RECURSIVE UnescapeDebug(_)
UnescapeDebug(s) ==
    IF s = <<>> THEN <<>>
    ELSE IF Head(s) # 92 THEN <<Head(s)>> \o UnescapeDebug(Tail(s))
    ELSE IF Len(s) >= 4 /\ s[2] = 117 /\ s[3] = 123 /\ \E i \in 4..Len(s) : s[i] = 125
    THEN LET close == CHOOSE i \in 4..Len(s) :
                        s[i] = 125 /\ \A j \in 4..(i - 1) : s[j] # 125
         IN  <<HexValue(SubSeq(s, 4, close - 1))>>
                \o UnescapeDebug(SubSeq(s, close + 1, Len(s)))
    ELSE IF Len(s) >= 2
    THEN <<CASE s[2] = 48 -> 0 [] s[2] = 116 -> 9 [] s[2] = 114 -> 13
             [] s[2] = 110 -> 10 [] OTHER -> s[2]>>
         \o UnescapeDebug(SubSeq(s, 3, Len(s)))
    ELSE s

\* C9: a refusal for receiver mismatch is a normal return (the "Ack is not
\* empty" expectation holds) of an error acknowledgement whose message is
\* not empty and reads "Shielded receive error: Address <receiver> is not
\* the MASP", the receiver in its quoted Debug rendering, for every
\* receiver, the empty one included.
C9_MismatchMessage ==
    (ShieldedRecvCall /\ call.packet.data.receiver # <<109, 97>>)
        => /\ ~result.panic
           /\ result.ret.ack.some
           /\ result.ret.ack.val.status = "error"
           /\ LET msg == result.ret.ack.val.msg
                  n == Len(msg)
                  p == Len(MismatchPrefix)
                  q == Len(MismatchSuffix)
              IN  /\ msg # <<>>
                  /\ n >= p + q + 2
                  /\ SubSeq(msg, 1, p) = MismatchPrefix
                  /\ msg[p + 1] = 34
                  /\ msg[n - q] = 34
                  /\ SubSeq(msg, n - q + 1, n) = MismatchSuffix
                  /\ UnescapeDebug(SubSeq(msg, p + 2, n - q - 1))
                        = call.packet.data.receiver

C9_Witness ==
    /\ ShieldedRecvCall
    /\ call.packet.data.receiver = <<>>
    /\ ~result.panic
    /\ result.ret.ack.val.msg = MismatchPrefix \o <<34, 34>> \o MismatchSuffix

\* whether a payload is refused, as a function of the payload alone
RefusedPayload(data) ==
    /\ data.ics20
    /\ ~MemoIsErr(data.memo)
    /\ data.receiver # <<109, 97>>

\* C10: along any run of inbound packets, a call of
\* middleware_on_recv_packet_execute calls next.on_recv_packet_execute at
\* most once, with the packet and relayer it was given, and not at all
\* exactly when the packet's payload is one that is refused, whatever
\* state the packets handled before have left.
C10_OneCallPerPacket ==
    [][(call'.op = "recv" /\ pre' = host)
        => /\ Len(nextCalls') <= 1
           /\ (nextCalls' = <<>>) <=> RefusedPayload(call'.packet.data)
           /\ \A i \in 1..Len(nextCalls') :
                /\ nextCalls'[i].hook = "on_recv_packet_execute"
                /\ nextCalls'[i].packet = call'.packet
                /\ nextCalls'[i].relayer = call'.relayer]_vars

C10_Witness ==
    /\ call.op = "recv"
    /\ pre.bal[MASP] > 0
    /\ pre.bal["alice"] > 0
    /\ RefusedPayload(call.packet.data)
    /\ nextCalls = <<>>

====
